---- MODULE Spec2Model ----
(***************************************************************************)
(* Tracking Success (app.py v7.4): the year block of a business profile,   *)
(* the Streamlit script run that edits it (sidebar, editors, monthly fixed *)
(* costs), and the dashboard and report tables derived from it.            *)
(*                                                                         *)
(* One script run is four steps: the sidebar (lines 395-520), the main     *)
(* sections up to the Monthly Plan & Actuals store (532-797), the          *)
(* dashboard (849-900) and the reports with the final persist (903-956).   *)
(* A run is started by one widget interaction.                             *)
(***************************************************************************)
EXTENDS Integers, Sequences, FiniteSets, TLC

VARIABLES
    years,                  \* st.session_state.profile["years"]: year key -> year block
    selected_year,          \* st.session_state.selected_year
    today,                  \* month of dt.date.today()
    view_n,                 \* value of the "View window" selectbox
    pc,                     \* position of the script run
    interacted,             \* this run's widget interaction has been handled
    runs,                   \* script runs started so far
    people_fixed_by_month,  \* script global of the run (643-649)
    df_dash,                \* script global of the run: dashboard table, sorted (858-865)
    view_df,                \* script global of the run: dashboard window (868-884)
    df_full,                \* script global of the run: report table (909-915)
    pdf_bytes,              \* script global of the run: the tracking report built (919)
    err,                    \* exception that ended the last run, "none" otherwise
    call,                   \* a function applied on its own: its arguments and results
    sessions,               \* browser sessions of the app: query parameter, name, tasks
    storage                 \* SD_STORAGE and the profile files of the two stores

vars == <<years, selected_year, today, view_n, pc, interacted, runs,
          people_fixed_by_month, df_dash, view_df, df_full, pdf_bytes, err, call,
          sessions, storage>>

----------------------------------------------------------------------------
(* Bounds of the model *)

MaxRuns == 3
MaxPeople == 2

(* Values the widgets are given *)
Amounts == {0, 1, 2}
OverheadAmounts == {0, 1}
CellAmounts == {0, 2}
YearChoices == {2026, 2027}
TodayMonths == {11}
StartChoices == {7}
EntryMonths == {"January", "February"}
EditRows == {2}
EditMonths == {"January", "None"}
VanChoices == {0}
ViewChoices == {1, 3, 6, 12}
PersonRows == {[Person |-> "Ann", AnnualCost |-> 24, StartMonth |-> 1, HasVan |-> FALSE,
                Comment |-> "", ExtraMonthly |-> 0],
               [Person |-> "Bob", AnnualCost |-> 0, StartMonth |-> 2, HasVan |-> TRUE,
                Comment |-> "", ExtraMonthly |-> 5]}

----------------------------------------------------------------------------
(* Numbers: Python floats as exact fractions n/d, d > 0; d = 0 is NaN/None *)

RECURSIVE Gcd(_, _)
Gcd(a, b) == IF b = 0 THEN a ELSE Gcd(b, a % b)

Abs(x) == IF x < 0 THEN -x ELSE x

NaN == [n |-> 0, d |-> 0]

Frac(n, d) == LET g == Gcd(Abs(n), d) IN [n |-> n \div g, d |-> d \div g]

Q(i) == [n |-> i, d |-> 1]

IsNaN(x) == x.d = 0

RAdd(x, y) == IF IsNaN(x) \/ IsNaN(y) THEN NaN
              ELSE Frac(x.n * y.d + y.n * x.d, x.d * y.d)

RSub(x, y) == IF IsNaN(x) \/ IsNaN(y) THEN NaN
              ELSE Frac(x.n * y.d - y.n * x.d, x.d * y.d)

RMul(x, y) == IF IsNaN(x) \/ IsNaN(y) THEN NaN
              ELSE Frac(x.n * y.n, x.d * y.d)

\* x / y for y # 0; the callers test for a zero divisor (ZeroDivisionError) first
RDiv(x, y) == IF IsNaN(x) \/ IsNaN(y) \/ y.n = 0 THEN NaN
              ELSE IF y.n > 0 THEN Frac(x.n * y.d, x.d * y.n)
              ELSE Frac(-(x.n * y.d), x.d * (-y.n))

\* x > 0; a comparison with NaN is False
Gt0(x) == ~IsNaN(x) /\ x.n > 0

Lt0(x) == ~IsNaN(x) /\ x.n < 0

\* Series.fillna(0.0)
FillNa(x) == IF IsNaN(x) THEN Q(0) ELSE x

RECURSIVE RSum(_)
RSum(s) == IF s = <<>> THEN Q(0) ELSE RAdd(Head(s), RSum(Tail(s)))

----------------------------------------------------------------------------
(* Constants and defaults *)

MONTHS == <<"January", "February", "March", "April", "May", "June", "July",
            "August", "September", "October", "November", "December">>

CUR_YEAR == 2026

\* Month cell of a cleared row after fillna(0.0)
BlankMonth == "0.0"

IsMonth(m) == \E i \in 1..12 : MONTHS[i] = m

\* MONTHS.index(m) + 1
MonthIndex(m) == CHOOSE i \in 1..12 : MONTHS[i] = m

MonthSet(df) == {df[i].Month : i \in 1..Len(df)}

\* set(MONTHS)
MonthNames == {MONTHS[i] : i \in 1..12}

default_streams == <<Q(400000), Q(300000), Q(250000), Q(50000)>>

default_monthly_plan(goal) ==
    [i \in 1..12 |-> [Month |-> MONTHS[i], PlannedRevenue |-> RDiv(goal, Q(12))]]

default_monthly_actuals ==
    [i \in 1..12 |-> [Month |-> MONTHS[i], RevenueActual |-> Q(0),
                      CostOfSales |-> Q(0), OtherOverheads |-> Q(0)]]

VanMonthlyDefault == 1200

new_year_block(revenue_goal) ==
    [lock_goal |-> TRUE,
     revenue_goal |-> revenue_goal,
     revenue_streams |-> default_streams,
     people_costs |-> <<>>,
     monthly_plan |-> default_monthly_plan(revenue_goal),
     monthly_actuals |-> default_monthly_actuals,
     account_start_date |-> today,
     van_monthly_default |-> Q(VanMonthlyDefault)]

\* The year block set to the defaults whether the year exists or not
EnsureYearBlockReset(yrs, year, revenue_goal) ==
    [k \in (DOMAIN yrs) \cup {year} |->
        IF k = year THEN new_year_block(revenue_goal) ELSE yrs[k]]

ensure_year_block(yrs, year, revenue_goal) ==
    IF year \in DOMAIN yrs THEN yrs
    ELSE [k \in (DOMAIN yrs) \cup {year} |->
            IF k = year THEN new_year_block(revenue_goal) ELSE yrs[k]]

----------------------------------------------------------------------------
(* State after construction: the session profile has no year yet *)

\* No function is applied on its own
NoCall == [fn |-> "none"]

\* No tracking report is built in the run
NoPdf == [made |-> FALSE]

\* No profile file in either store, local mode (line 49)
NoStorage == [mode |-> "local", local |-> <<>>, s3 |-> <<>>]

\* One session whose task list and stored files are not looked at
OneSession ==
    /\ sessions = <<>>
    /\ storage = NoStorage

\* A step of the script run
ScriptStep == UNCHANGED <<call, sessions, storage>>

Init ==
    /\ call = NoCall
    /\ years = <<>>
    /\ selected_year = CUR_YEAR
    /\ today \in TodayMonths
    /\ view_n = 12
    /\ pc = "sidebar"
    /\ interacted = FALSE
    /\ runs = 0
    /\ people_fixed_by_month = <<>>
    /\ df_dash = <<>>
    /\ view_df = <<>>
    /\ df_full = <<>>
    /\ pdf_bytes = NoPdf
    /\ err = "none"
    /\ OneSession

----------------------------------------------------------------------------
(* Sidebar: lines 395-520 *)

\* Every run starts the script anew: its globals do not survive the last run
RunStart ==
    /\ pc = "sidebar"
    /\ runs < MaxRuns
    /\ runs' = runs + 1
    /\ pc' = "main"
    /\ people_fixed_by_month' = <<>>
    /\ df_dash' = <<>>
    /\ view_df' = <<>>
    /\ df_full' = <<>>
    /\ pdf_bytes' = NoPdf
    /\ err' = "none"
    /\ ScriptStep

\* Setup expander without the button: ensure the selected year, write back the
\* date input (477-484)
SetupYear(yrs, yk, sd_new) ==
    LET ensured == ensure_year_block(yrs, yk, Q(0))
    IN  [ensured EXCEPT ![yk].account_start_date = sd_new]

\* A run no sidebar widget started
SidebarPass ==
    /\ RunStart
    /\ years' = SetupYear(years, selected_year,
                          ensure_year_block(years, selected_year, Q(0))[selected_year].account_start_date)
    /\ interacted' = FALSE
    /\ UNCHANGED <<selected_year, today, view_n>>

\* The user picks another Account Start Date (483-484)
StartDateEdit(m) ==
    /\ RunStart
    /\ runs > 0
    /\ years' = SetupYear(years, selected_year, m)
    /\ interacted' = TRUE
    /\ UNCHANGED <<selected_year, today, view_n>>

\* goal of the Add / Ensure Year button (472-473)
EnsureYearGoal(yrs, year) ==
    IF year \in DOMAIN yrs THEN RSum(yrs[year].revenue_streams)
    ELSE RSum(default_streams)

\* "Add / Ensure Year" (469-475), st.rerun(), and the sidebar of the rerun (477-484)
AddEnsureYear(year) ==
    /\ RunStart
    /\ runs > 0
    /\ selected_year' = year
    /\ LET added == ensure_year_block(years, year, EnsureYearGoal(years, year))
       IN  years' = SetupYear(added, year, added[year].account_start_date)
    /\ interacted' = TRUE
    /\ UNCHANGED <<today, view_n>>

\* The entry written without the "if q_month in ma.index" test: .at on a label
\* the index does not have adds a row
SetMonthEntryUnguarded(ma, q_month, q_rev, q_cogs, q_oth) ==
    IF q_month \in MonthSet(ma)
    THEN [i \in 1..Len(ma) |->
            IF ma[i].Month = q_month
            THEN [ma[i] EXCEPT !.RevenueActual = q_rev, !.CostOfSales = q_cogs,
                               !.OtherOverheads = q_oth]
            ELSE ma[i]]
    ELSE Append(ma, [Month |-> q_month, RevenueActual |-> q_rev,
                     CostOfSales |-> q_cogs, OtherOverheads |-> q_oth])

\* ma.at[q_month, ...] = ... ; reset_index().to_dict(orient="records") (512-517)
SetMonthEntry(ma, q_month, q_rev, q_cogs, q_oth) ==
    IF q_month \in MonthSet(ma)
    THEN [i \in 1..Len(ma) |->
            IF ma[i].Month = q_month
            THEN [ma[i] EXCEPT !.RevenueActual = q_rev, !.CostOfSales = q_cogs,
                               !.OtherOverheads = q_oth]
            ELSE ma[i]]
    ELSE ma

\* "Save Month Entry" (503-520), after the Setup expander of the same run
SaveMonthEntry(q_month, q_rev, q_cogs, q_oth) ==
    /\ RunStart
    /\ runs > 0
    /\ LET setup == SetupYear(years, selected_year, years[selected_year].account_start_date)
           yrs   == ensure_year_block(setup, selected_year, Q(0))
       IN  years' = [yrs EXCEPT ![selected_year].monthly_actuals =
                        SetMonthEntry(@, q_month, Q(q_rev), Q(q_cogs), Q(q_oth))]
    /\ interacted' = TRUE
    /\ UNCHANGED <<selected_year, today, view_n>>

----------------------------------------------------------------------------
(* Main sections: lines 532-797 *)

\* An untouched widget
NoEdit == [widget |-> "none"]

\* pd.to_numeric(errors="coerce").fillna(0.0).clip(0.0) of a TargetValue (581)
ClipTarget(v) == IF IsNaN(v) \/ v.n < 0 THEN Q(0) ELSE v

\* Revenue Streams (577-602): the total is taken from the table the editor is
\* given, the table the editor returns is stored, the goal follows the lock
RevenueSection(yb, e) ==
    LET rev_df        == [i \in 1..Len(yb.revenue_streams) |-> ClipTarget(yb.revenue_streams[i])]
        streams_total == RSum(rev_df)
        lock_goal     == yb.lock_goal
        revenue_goal  == IF lock_goal THEN streams_total ELSE yb.revenue_goal
        rev_editor    == IF e.widget = "revenue_editor_year"
                         THEN [rev_df EXCEPT ![e.row] = e.val]
                         ELSE rev_df
        lock_goal_ui  == IF e.widget = "chk_lock_goal" THEN e.val ELSE lock_goal
        goal_input    == IF e.widget = "nb_revenue_goal" THEN e.val ELSE revenue_goal
    IN  [yb EXCEPT !.revenue_streams = rev_editor,
                   !.lock_goal = lock_goal_ui,
                   !.revenue_goal = IF lock_goal_ui THEN streams_total ELSE goal_input]

\* pc_df.drop_duplicates(subset=["Person"]) (611): the first row of each person stays
drop_duplicates(pc_df) ==
    SelectSeq([i \in 1..Len(pc_df) |->
                 [row |-> pc_df[i],
                  first |-> \A j \in 1..(i - 1) : pc_df[j].Person # pc_df[i].Person]],
              LAMBDA x : x.first)

Rows(marked) == [i \in 1..Len(marked) |-> marked[i].row]

\* The people editor adds a row or deletes one (618-629: num_rows="dynamic")
PeopleEditor(pc_df, e) ==
    IF e.widget = "people_costs_editor_year" /\ e.op = "add" THEN Append(pc_df, e.row)
    ELSE IF e.widget = "people_costs_editor_year" /\ e.op = "delete"
    THEN [i \in 1..(Len(pc_df) - 1) |-> IF i < e.at THEN pc_df[i] ELSE pc_df[i + 1]]
    ELSE pc_df

\* pc_edit.fillna({"HasVan": False, "ExtraMonthly": 0.0}) (630); a blank cell is a
\* column the row does not have
FillNaPeopleRow(row) ==
    [c \in (DOMAIN row) \cup {"HasVan", "ExtraMonthly"} |->
        IF c \in DOMAIN row THEN row[c]
        ELSE IF c = "HasVan" THEN FALSE ELSE 0]

FillNaPeople(pc_edit) == [i \in 1..Len(pc_edit) |-> FillNaPeopleRow(pc_edit[i])]

\* People Costs (605-630): the van default is written back, then the edited table
PeopleSection(yb, e) ==
    LET pc_df      == Rows(drop_duplicates(yb.people_costs))
        vm_default == IF e.widget = "nb_van_default" THEN Q(e.val) ELSE yb.van_monthly_default
    IN  [yb EXCEPT !.van_monthly_default = vm_default,
                   !.people_costs = FillNaPeople(PeopleEditor(pc_df, e))]

\* float(row.get(c, 0.0)) of a DataFrame row: NaN for a blank cell
Cell(row, c) == IF c \in DOMAIN row THEN Q(row[c]) ELSE NaN

\* int(row.get("StartMonth", 1)) raises ValueError for a blank cell (637)
PerPersonRaises(yb) ==
    \E i \in 1..Len(yb.people_costs) : "StartMonth" \notin DOMAIN yb.people_costs[i]

\* The extra monthly cost and the van default as alternatives
PerPersonExclusive(row, van_monthly_default) ==
    [base  |-> RDiv(Q(row.AnnualCost), Q(12)),
     start |-> row.StartMonth,
     extra |-> IF row.ExtraMonthly > 0 THEN Q(row.ExtraMonthly)
               ELSE IF row.HasVan THEN van_monthly_default ELSE Q(0)]

\* One entry of per_person (635-641): (base, start, extra)
PerPerson(row, van_monthly_default) ==
    LET base  == RDiv(Cell(row, "AnnualCost"), Q(12))
        extra == Cell(row, "ExtraMonthly")
    IN  [base  |-> base,
         start |-> IF "StartMonth" \in DOMAIN row THEN row.StartMonth ELSE 1,
         extra |-> IF row.HasVan THEN RAdd(extra, van_monthly_default) ELSE extra]

per_person(yb) ==
    [i \in 1..Len(yb.people_costs) |-> PerPerson(yb.people_costs[i], yb.van_monthly_default)]

\* A person counted only after the start month
RECURSIVE MonthTotalAfterStart(_, _)
MonthTotalAfterStart(pp, idx) ==
    IF pp = <<>> THEN Q(0)
    ELSE LET p    == pp[Len(pp)]
             rest == MonthTotalAfterStart(SubSeq(pp, 1, Len(pp) - 1), idx)
         IN  IF idx > p.start THEN RAdd(rest, RAdd(p.base, p.extra)) ELSE rest

\* total of one month (645-648)
RECURSIVE MonthTotal(_, _)
MonthTotal(pp, idx) ==
    IF pp = <<>> THEN Q(0)
    ELSE LET p    == pp[Len(pp)]
             rest == MonthTotal(SubSeq(pp, 1, Len(pp) - 1), idx)
         IN  IF idx >= p.start THEN RAdd(rest, RAdd(p.base, p.extra)) ELSE rest

\* people_fixed_by_month (643-649)
PeopleFixedByMonth(pp) == [idx \in 1..12 |-> MonthTotal(pp, idx)]

\* One cell of a data editor row is changed (778-795)
EditCell(df, e) ==
    [i \in 1..Len(df) |-> IF i = e.row THEN [df[i] EXCEPT ![e.col] = e.val] ELSE df[i]]

\* mp_edit.fillna(0.0) / ma_edit.fillna(0.0) (796-797): a cleared cell becomes 0.0
FillNaRow(r) ==
    [c \in DOMAIN r |->
        IF c = "Month" THEN (IF r[c] = "None" THEN BlankMonth ELSE r[c]) ELSE FillNa(r[c])]

FillNaTable(df) == [i \in 1..Len(df) |-> FillNaRow(df[i])]

\* Monthly Plan & Actuals (767-797): repair, edit, store
MonthlySection(yb, e) ==
    LET mp_df   == IF MonthSet(yb.monthly_plan) # MonthNames
                   THEN default_monthly_plan(yb.revenue_goal) ELSE yb.monthly_plan
        ma_df   == IF MonthSet(yb.monthly_actuals) # MonthNames
                   THEN default_monthly_actuals ELSE yb.monthly_actuals
        mp_edit == IF e.widget = "monthly_plan_editor_year" THEN EditCell(mp_df, e) ELSE mp_df
        ma_edit == IF e.widget = "monthly_actuals_editor_year" THEN EditCell(ma_df, e) ELSE ma_df
    IN  [yb EXCEPT !.monthly_plan = FillNaTable(mp_edit),
                   !.monthly_actuals = FillNaTable(ma_edit)]

\* mp_df["Month"] / ma_df["Month"] raises KeyError for a table without records:
\* pd.DataFrame([]) has no columns (774-777)
MonthlyRaises(yb) == yb.monthly_plan = <<>> \/ yb.monthly_actuals = <<>>

\* The main sections of one run, the widget of e being the one the user touched.
\* The year block is edited in place: what a section has written stays when a
\* later line raises
MainSection(e) ==
    /\ pc = "main"
    /\ e.widget # "none" => (~interacted /\ runs > 1)
    /\ LET yk     == selected_year
           people == PeopleSection(RevenueSection(years[yk], e), e)
       IN  IF PerPersonRaises(people)
           THEN /\ years' = [years EXCEPT ![yk] = people]
                /\ people_fixed_by_month' = <<>>
                /\ err' = "ValueError"
                /\ pc' = "sidebar"
           ELSE IF MonthlyRaises(people)
           THEN /\ years' = [years EXCEPT ![yk] = people]
                /\ people_fixed_by_month' = PeopleFixedByMonth(per_person(people))
                /\ err' = "KeyError"
                /\ pc' = "sidebar"
           ELSE /\ years' = [years EXCEPT ![yk] = MonthlySection(people, e)]
                /\ people_fixed_by_month' = PeopleFixedByMonth(per_person(people))
                /\ err' = err
                /\ pc' = "dash"
    /\ interacted' = (interacted \/ e.widget # "none")
    /\ UNCHANGED <<selected_year, today, view_n, runs, df_dash, view_df, df_full, pdf_bytes>>
    /\ ScriptStep

\* No editor touched
MainPass == MainSection(NoEdit)

VanDefaultEdit(v) == MainSection([widget |-> "nb_van_default", val |-> v])

PeopleCostsAdd(row) ==
    /\ pc = "main"
    /\ Len(years[selected_year].people_costs) < MaxPeople
    /\ MainSection([widget |-> "people_costs_editor_year", op |-> "add", row |-> row])

PeopleCostsDelete(at) ==
    /\ pc = "main"
    /\ at \in 1..Len(Rows(drop_duplicates(years[selected_year].people_costs)))
    /\ MainSection([widget |-> "people_costs_editor_year", op |-> "delete", at |-> at])

\* A TargetValue cell of the revenue streams editor is given a value (586-594)
RevenueStreamEdit(row, val) ==
    /\ pc = "main"
    /\ row \in 1..Len(years[selected_year].revenue_streams)
    /\ ClipTarget(years[selected_year].revenue_streams[row]) # val
    /\ MainSection([widget |-> "revenue_editor_year", row |-> row, val |-> val])

\* "Lock goal to streams total" is ticked or unticked (597)
LockGoalToggle ==
    /\ pc = "main"
    /\ MainSection([widget |-> "chk_lock_goal", val |-> ~years[selected_year].lock_goal])

\* "Revenue goal" is given a value; the input is disabled under the lock (599)
RevenueGoalInput(val) ==
    /\ pc = "main"
    /\ ~years[selected_year].lock_goal
    /\ years[selected_year].revenue_goal # val
    /\ MainSection([widget |-> "nb_revenue_goal", val |-> val])

MonthlyPlanEdit(row, col, val) ==
    MainSection([widget |-> "monthly_plan_editor_year", row |-> row, col |-> col, val |-> val])

MonthlyActualsEdit(row, col, val) ==
    MainSection([widget |-> "monthly_actuals_editor_year", row |-> row, col |-> col, val |-> val])

----------------------------------------------------------------------------
(* Dashboard & Charts: lines 845-900 *)

\* Start index 0 for January
RotateFromZero(start_month_idx) ==
    LET idx == start_month_idx % 12
    IN  SubSeq(MONTHS, idx + 1, 12) \o SubSeq(MONTHS, 1, idx)

\* No wrap-around: a start index outside 1..12 gives the canonical order
RotateNoWrap(start_month_idx) ==
    LET idx == IF start_month_idx \in 1..12 THEN start_month_idx - 1 ELSE 0
    IN  SubSeq(MONTHS, idx + 1, 12) \o SubSeq(MONTHS, 1, idx)

\* rotate_months_from (845-847): MONTHS[idx:] + MONTHS[:idx]
rotate_months_from(start_month_idx) ==
    LET idx == (start_month_idx - 1) % 12
    IN  SubSeq(MONTHS, idx + 1, 12) \o SubSeq(MONTHS, 1, idx)

\* ordered_months.index(m)
IndexIn(ordered_months, m) == (CHOOSE i \in 1..12 : ordered_months[i] = m) - 1

\* The rows mp.merge(ma, on="Month", how="left") gives for one plan row
MergeRow(l, ma) ==
    LET hits == SelectSeq(ma, LAMBDA r : r.Month = l.Month)
    IN  IF hits = <<>>
        THEN <<[Month |-> l.Month, PlannedRevenue |-> l.PlannedRevenue,
                RevenueActual |-> NaN, CostOfSales |-> NaN, OtherOverheads |-> NaN]>>
        ELSE [j \in 1..Len(hits) |->
                [Month |-> l.Month, PlannedRevenue |-> l.PlannedRevenue,
                 RevenueActual |-> hits[j].RevenueActual,
                 CostOfSales |-> hits[j].CostOfSales,
                 OtherOverheads |-> hits[j].OtherOverheads]]

\* mp.merge(ma, on="Month", how="left") (859, 910)
RECURSIVE Merge(_, _)
Merge(mp, ma) ==
    IF mp = <<>> THEN <<>> ELSE MergeRow(Head(mp), ma) \o Merge(Tail(mp), ma)

\* A margin that is 0 rather than None without revenue
MarginPctZero(r) ==
    IF Gt0(r.RevenueActual)
    THEN RMul(RDiv(RSub(r.RevenueActual, r.CostOfSales), r.RevenueActual), Q(100))
    ELSE Q(0)

\* (r.RevenueActual - r.CostOfSales) / r.RevenueActual * 100.0 if r.RevenueActual > 0 else None
MarginPct(r) ==
    IF Gt0(r.RevenueActual)
    THEN RMul(RDiv(RSub(r.RevenueActual, r.CostOfSales), r.RevenueActual), Q(100))
    ELSE NaN

GrossMargin(r) == FillNa(RSub(r.RevenueActual, r.CostOfSales))

OperatingProfit(r, people_fixed) ==
    FillNa(RSub(RSub(GrossMargin(r), people_fixed), r.OtherOverheads))

\* The derived columns of one merged row (860-863, 911-914)
DerivedRow(r, pfbm) ==
    LET people_fixed == pfbm[MonthIndex(r.Month)]
    IN  [Month |-> r.Month, PlannedRevenue |-> r.PlannedRevenue,
         RevenueActual |-> r.RevenueActual, CostOfSales |-> r.CostOfSales,
         OtherOverheads |-> r.OtherOverheads,
         PeopleFixed |-> people_fixed,
         GrossMargin |-> GrossMargin(r),
         OperatingProfit |-> OperatingProfit(r, people_fixed),
         MarginPct |-> MarginPct(r)]

DerivedTable(mp, ma, pfbm) ==
    LET merged == Merge(mp, ma)
    IN  [i \in 1..Len(merged) |-> DerivedRow(merged[i], pfbm)]

\* df_dash.sort_values("MIdx") (864-865); rows of one month keep their order
RECURSIVE SortByMIdx(_, _, _)
SortByMIdx(df, ordered_months, k) ==
    IF k > 11 THEN <<>>
    ELSE SelectSeq(df, LAMBDA r : IndexIn(ordered_months, r.Month) = k)
         \o SortByMIdx(df, ordered_months, k + 1)

\* MONTHS.index(m) raises ValueError for a month cell that names no month (860)
DashboardRaises(yb) == \E m \in MonthSet(yb.monthly_plan) : ~IsMonth(m)

\* People fixed costs counted from the account start month instead of January
DfDashFixedFromStart(yb, pfbm) ==
    SortByMIdx(DerivedTable(yb.monthly_plan, yb.monthly_actuals,
                            [i \in 1..12 |-> pfbm[((i - yb.account_start_date) % 12) + 1]]),
               rotate_months_from(yb.account_start_date), 0)

\* df_dash of the selected year (858-865)
DfDash(yb, pfbm) ==
    SortByMIdx(DerivedTable(yb.monthly_plan, yb.monthly_actuals, pfbm),
               rotate_months_from(yb.account_start_date), 0)

Head_n(df, n) == SubSeq(df, 1, IF n < Len(df) THEN n ELSE Len(df))

\* A fallback of 75 (a cost ratio of 0.25) when the window has no positive margin
FallbackMarginQuarter(view) ==
    LET valid_margins == SelectSeq([i \in 1..Len(view) |-> view[i].MarginPct],
                                   LAMBDA m : Gt0(m))
    IN  IF valid_margins # <<>>
        THEN RDiv(RSum(valid_margins), Q(Len(valid_margins)))
        ELSE Q(75)

\* valid_margins and fallback_margin (876-877)
FallbackMargin(view) ==
    LET valid_margins == SelectSeq([i \in 1..Len(view) |-> view[i].MarginPct],
                                   LAMBDA m : Gt0(m))
    IN  IF valid_margins # <<>>
        THEN RDiv(RSum(valid_margins), Q(Len(valid_margins)))
        ELSE Q(40)

\* The month's own margin whenever it has revenue, the fallback only without
BreakEvenMarginRatioOwn(row, fb) ==
    LET rev        == row.RevenueActual
        cogs       == row.CostOfSales
        own        == RMul(RDiv(RSub(rev, cogs), rev), Q(100))
        margin_pct == IF ~Gt0(rev) THEN fb ELSE own
    IN  RDiv(margin_pct, Q(100))

\* mr of compute_break_even_row (879-882)
BreakEvenMarginRatio(row, fb) ==
    LET rev        == row.RevenueActual
        cogs       == row.CostOfSales
        own        == RMul(RDiv(RSub(rev, cogs), rev), Q(100))
        margin_pct == IF ~Gt0(rev) \/ (~IsNaN(own) /\ own.n <= 0) THEN fb ELSE own
    IN  RDiv(margin_pct, Q(100))

\* compute_break_even_row (878-883)
compute_break_even_row(row, people_fixed_monthly, fb) ==
    LET mr == BreakEvenMarginRatio(row, fb)
    IN  IF Gt0(mr) THEN RDiv(RAdd(people_fixed_monthly, row.OtherOverheads), mr) ELSE NaN

\* view_df with its BreakEvenRevenue column (868, 876-884)
ViewDf(dash, n) ==
    LET view == Head_n(dash, n)
        fb   == FallbackMargin(view)
    IN  [i \in 1..Len(view) |->
            [c \in (DOMAIN view[i]) \cup {"BreakEvenRevenue"} |->
                IF c = "BreakEvenRevenue"
                THEN compute_break_even_row(view[i], view[i].PeopleFixed, fb)
                ELSE view[i][c]]]

\* months_recorded, win_revenue and win_profit of the window (870-871)
WindowMetrics(view) ==
    [months_recorded |-> Len(SelectSeq(view, LAMBDA r : \/ Gt0(r.RevenueActual)
                                                        \/ Gt0(r.CostOfSales)
                                                        \/ Gt0(r.OtherOverheads))),
     win_revenue |-> RSum([i \in 1..Len(view) |-> FillNa(view[i].RevenueActual)]),
     win_profit |-> RSum([i \in 1..Len(view) |-> FillNa(view[i].OperatingProfit)])]

\* The dashboard of one run, the window selectbox showing n
DashboardSection(n) ==
    /\ pc = "dash"
    /\ n # view_n => (~interacted /\ runs > 1)
    /\ view_n' = n
    /\ interacted' = (interacted \/ n # view_n)
    /\ LET yb   == years[selected_year]
           dash == DfDash(yb, people_fixed_by_month)
       IN  IF DashboardRaises(yb)
           THEN /\ err' = "ValueError"
                /\ pc' = "sidebar"
                /\ UNCHANGED <<df_dash, view_df>>
           ELSE /\ df_dash' = dash
                /\ view_df' = ViewDf(dash, n)
                /\ pc' = "report"
                /\ UNCHANGED err
    /\ UNCHANGED <<years, selected_year, today, runs, people_fixed_by_month, df_full,
                   pdf_bytes>>
    /\ ScriptStep

Dashboard == DashboardSection(view_n)

ViewWindowSelect(n) == n # view_n /\ DashboardSection(n)

----------------------------------------------------------------------------
(* Reports and Persist: lines 903-956 *)

\* The divisor of the report's BreakEvenRevenue (915)
ReportDivisor(r) ==
    IF Gt0(r.RevenueActual)
    THEN RDiv(RSub(r.RevenueActual, r.CostOfSales), r.RevenueActual)
    ELSE Frac(4, 10)

\* df_full["BreakEvenRevenue"] of one row (915)
ReportBreakEven(r) == RDiv(RAdd(r.PeopleFixed, r.OtherOverheads), ReportDivisor(r))

\* The float division of line 915 raises ZeroDivisionError on a zero divisor
ReportRaises(full) == \E i \in 1..Len(full) : ReportDivisor(full[i]) = Q(0)

\* df_full (909-915)
DfFull(yb, pfbm) ==
    LET full == DerivedTable(yb.monthly_plan, yb.monthly_actuals, pfbm)
    IN  [i \in 1..Len(full) |->
            [c \in (DOMAIN full[i]) \cup {"BreakEvenRevenue"} |->
                IF c = "BreakEvenRevenue" THEN ReportBreakEven(full[i]) ELSE full[i][c]]]

\* The report table written into the year block
PersistDerived(yrs, yk, year_block) ==
    [yrs EXCEPT ![yk] = [year_block EXCEPT !.monthly_plan =
        DerivedTable(year_block.monthly_plan, year_block.monthly_actuals,
                     PeopleFixedByMonth(per_person(year_block)))]]

\* st.session_state.profile["years"][yk] = year_block (956)
Persist(yrs, yk, year_block) == [yrs EXCEPT ![yk] = year_block]

\* A run-rate that divides by months_recorded without looking at it
RunRateUnguarded(ytd, months_recorded) ==
    RMul(RDiv(ytd, Q(months_recorded)), Q(12))

\* (ytd / months_recorded * 12.0) if months_recorded > 0 else 0.0 (247-248)
RunRate(ytd, months_recorded) ==
    IF months_recorded > 0 THEN RMul(RDiv(ytd, Q(months_recorded)), Q(12)) ELSE Q(0)

\* Series.sum(): NaN is skipped
SeriesSum(col) == RSum([i \in 1..Len(col) |-> FillNa(col[i])])

\* The summary table of build_tracking_pdf (243-251), df being the df_dash
\* parameter: the caller passes df_full (919)
build_tracking_pdf(yrs, year, df) ==
    LET ytd_rev         == SeriesSum([i \in 1..Len(df) |-> df[i].RevenueActual])
        ytd_profit      == SeriesSum([i \in 1..Len(df) |-> df[i].OperatingProfit])
        months_recorded == Len(SelectSeq(df, LAMBDA r : \/ Gt0(r.RevenueActual)
                                                        \/ Gt0(r.CostOfSales)
                                                        \/ Gt0(r.OtherOverheads)))
    IN  [made            |-> TRUE,
         goal            |-> yrs[year].revenue_goal,
         months_recorded |-> months_recorded,
         ytd_rev         |-> ytd_rev,
         ytd_profit      |-> ytd_profit,
         runrate_rev     |-> RunRate(ytd_rev, months_recorded),
         runrate_profit  |-> RunRate(ytd_profit, months_recorded)]

\* Reports (903-926) and Persist (952-956), the "Generate Tracking Report (PDF)"
\* button pressed or not
ReportsSection(btn_pdf_tracking) ==
    /\ pc = "report"
    /\ btn_pdf_tracking => (~interacted /\ runs > 1)
    /\ pc' = "sidebar"
    /\ interacted' = (interacted \/ btn_pdf_tracking)
    /\ LET yb   == years[selected_year]
           full == DerivedTable(yb.monthly_plan, yb.monthly_actuals, people_fixed_by_month)
       IN  IF ReportRaises(full)
           THEN /\ err' = "ZeroDivisionError"
                /\ UNCHANGED <<df_full, years, pdf_bytes>>
           ELSE /\ df_full' = DfFull(yb, people_fixed_by_month)
                /\ pdf_bytes' = IF btn_pdf_tracking
                                THEN build_tracking_pdf(years, selected_year,
                                                        DfFull(yb, people_fixed_by_month))
                                ELSE NoPdf
                /\ years' = Persist(years, selected_year, yb)
                /\ UNCHANGED err
    /\ UNCHANGED <<selected_year, today, view_n, runs,
                   people_fixed_by_month, df_dash, view_df>>
    /\ ScriptStep

Reports == ReportsSection(FALSE)

GenerateTrackingReport == ReportsSection(TRUE)

----------------------------------------------------------------------------
(* The script runs *)

Next ==
    \/ SidebarPass
    \/ \E m \in StartChoices : StartDateEdit(m)
    \/ \E year \in YearChoices : AddEnsureYear(year)
    \/ \E q_month \in EntryMonths, q_rev \in Amounts, q_cogs \in Amounts,
          q_oth \in OverheadAmounts : SaveMonthEntry(q_month, q_rev, q_cogs, q_oth)
    \/ MainPass
    \/ \E v \in VanChoices : VanDefaultEdit(v)
    \/ \E row \in PersonRows : PeopleCostsAdd(row)
    \/ \E at \in 1..MaxPeople : PeopleCostsDelete(at)
    \/ \E row \in EditRows, val \in EditMonths : MonthlyPlanEdit(row, "Month", val)
    \/ \E row \in EditRows, val \in CellAmounts : MonthlyPlanEdit(row, "PlannedRevenue", Q(val))
    \/ \E row \in EditRows, val \in EditMonths : MonthlyActualsEdit(row, "Month", val)
    \/ \E row \in EditRows, col \in {"RevenueActual", "CostOfSales", "OtherOverheads"},
          val \in CellAmounts : MonthlyActualsEdit(row, col, Q(val))
    \/ Dashboard
    \/ \E n \in ViewChoices : ViewWindowSelect(n)
    \/ Reports
    \/ GenerateTrackingReport

Spec == Init /\ [][Next]_vars

----------------------------------------------------------------------------
(* The monthly fixed cost computation alone (632-649), over people cost tables
   the people editor can hold *)

PeopleAnnualCosts == {0, 30}
PeopleStartMonths == {1, 7, 12}
PeopleExtras == {0, 5}
PeopleVanDefaults == {0, 1200}

PeopleNames == <<"Ann", "Bob", "Cy", "Dee">>

PeopleRow(k) ==
    [Person : {PeopleNames[k]}, AnnualCost : PeopleAnnualCosts, StartMonth : PeopleStartMonths,
     HasVan : BOOLEAN, Comment : {""}, ExtraMonthly : PeopleExtras]

PeopleTables ==
    UNION {[1..len -> UNION {PeopleRow(k) : k \in 1..MaxPeople}] : len \in 0..MaxPeople}

InitPeople ==
    /\ call = NoCall
    /\ today \in TodayMonths
    /\ selected_year = CUR_YEAR
    /\ \E people \in PeopleTables, van \in PeopleVanDefaults :
          /\ \A i \in 1..Len(people) : people[i].Person = PeopleNames[i]
          /\ years = [y \in {CUR_YEAR} |->
                        [new_year_block(Q(0)) EXCEPT !.people_costs = people,
                                                    !.van_monthly_default = Q(van)]]
    /\ view_n = 12
    /\ pc = "fixed"
    /\ interacted = FALSE
    /\ runs = 1
    /\ people_fixed_by_month = <<>>
    /\ df_dash = <<>>
    /\ view_df = <<>>
    /\ df_full = <<>>
    /\ pdf_bytes = NoPdf
    /\ err = "none"
    /\ OneSession

\* per_person and people_fixed_by_month of the selected year (633-649)
MonthlyFixed ==
    /\ pc = "fixed"
    /\ people_fixed_by_month' = PeopleFixedByMonth(per_person(years[selected_year]))
    /\ pc' = "dash"
    /\ UNCHANGED <<years, selected_year, today, view_n, interacted, runs,
                   df_dash, view_df, df_full, pdf_bytes, err>>
    /\ ScriptStep

NextPeople == MonthlyFixed

SpecPeople == InitPeople /\ [][NextPeople]_vars

----------------------------------------------------------------------------
(* rotate_months_from alone (845-847), over integer start indices, and the
   same slicing applied once more to its result *)

MaxStart == 25

RotateStarts == (0 - MaxStart)..MaxStart

\* seq[idx:] + seq[:idx] with idx = (start_month_idx - 1) % 12 (846-847), seq
\* a sequence of 12 months
RotateSeq(seq, start_month_idx) ==
    LET idx == (start_month_idx - 1) % 12
    IN  SubSeq(seq, idx + 1, 12) \o SubSeq(seq, 1, idx)

InitRotate ==
    /\ \E k1 \in RotateStarts, k2 \in RotateStarts :
          call = [fn |-> "rotate_months_from", k1 |-> k1, k2 |-> k2,
                  once |-> <<>>, twice |-> <<>>]
    /\ years = <<>>
    /\ selected_year = CUR_YEAR
    /\ today \in TodayMonths
    /\ view_n = 12
    /\ pc = "call"
    /\ interacted = FALSE
    /\ runs = 0
    /\ people_fixed_by_month = <<>>
    /\ df_dash = <<>>
    /\ view_df = <<>>
    /\ df_full = <<>>
    /\ pdf_bytes = NoPdf
    /\ err = "none"
    /\ OneSession

\* The script's variables, which a function applied on its own leaves alone
script == <<years, selected_year, today, view_n, pc, interacted, runs,
            people_fixed_by_month, df_dash, view_df, df_full, pdf_bytes, err,
            sessions, storage>>

\* ordered_months = rotate_months_from(k1)
RotateOnce ==
    /\ call.fn = "rotate_months_from"
    /\ call.once = <<>>
    /\ call' = [call EXCEPT !.once = rotate_months_from(call.k1)]
    /\ UNCHANGED script

\* The rotated sequence rotated again, from start index k2
RotateAgain ==
    /\ call.fn = "rotate_months_from"
    /\ call.once # <<>>
    /\ call.twice = <<>>
    /\ call' = [call EXCEPT !.twice = RotateSeq(call.once, call.k2)]
    /\ UNCHANGED script

NextRotate == RotateOnce \/ RotateAgain

SpecRotate == InitRotate /\ [][NextRotate]_vars

----------------------------------------------------------------------------
(* The runs after "Open" (399-410) has put a stored profile into the session:
   st.session_state.profile = data, unvalidated, then st.rerun() *)

\* monthly_plan arrays of a stored year block
LoadedPlans ==
    LET full == default_monthly_plan(RSum(default_streams))
    IN  {full,
         [full EXCEPT ![2].Month = "January"],
         [full EXCEPT ![2].Month = BlankMonth],
         [full EXCEPT ![1].PlannedRevenue = Q(0 - 2)],
         SubSeq(full, 1, 3),
         <<>>}

\* monthly_actuals arrays of a stored year block
LoadedActuals ==
    LET full == default_monthly_actuals
    IN  {full,
         [full EXCEPT ![1].RevenueActual = Q(2), ![1].CostOfSales = Q(1),
                      ![1].OtherOverheads = Q(1)],
         [full EXCEPT ![1].RevenueActual = Q(2), ![1].CostOfSales = Q(1),
                      ![1].OtherOverheads = Q(1), ![2].CostOfSales = Q(1)],
         [full EXCEPT ![1].RevenueActual = Q(2), ![1].CostOfSales = Q(0 - 1),
                      ![1].OtherOverheads = Q(0 - 1)],
         [full EXCEPT ![1].RevenueActual = Q(0 - 2)],
         [full EXCEPT ![2].Month = "January"],
         SubSeq(full, 1, 3),
         <<>>}

\* people_costs rows of a stored year block; a row's blank cell is a column the
\* row does not have
LoadedPeopleRows ==
    {[Person |-> "Ann", AnnualCost |-> 24, StartMonth |-> 1, HasVan |-> FALSE,
      Comment |-> "", ExtraMonthly |-> 0],
     [Person |-> "Ann", AnnualCost |-> 0 - 12, StartMonth |-> 1, HasVan |-> FALSE,
      Comment |-> "", ExtraMonthly |-> 0],
     [Person |-> "Ann", AnnualCost |-> 24, StartMonth |-> 1, HasVan |-> FALSE,
      Comment |-> "", ExtraMonthly |-> 0 - 5],
     [Person |-> "Ann", StartMonth |-> 7, HasVan |-> FALSE, Comment |-> "",
      ExtraMonthly |-> 5],
     [Person |-> "Ann", AnnualCost |-> 24, StartMonth |-> 7, HasVan |-> FALSE,
      Comment |-> ""]}

LoadedPeople == {<<>>} \cup {<<row>> : row \in LoadedPeopleRows}

\* Rows added in the people editor with cells left blank (618-629)
BlankRows ==
    {[Person |-> "Bob", Comment |-> ""],
     [Person |-> "Bob", AnnualCost |-> 12, Comment |-> "", HasVan |-> FALSE],
     [Person |-> "Bob", StartMonth |-> 2, Comment |-> "", HasVan |-> TRUE]}

InitLoaded ==
    /\ today \in TodayMonths
    /\ selected_year = CUR_YEAR
    /\ \E plan \in LoadedPlans, actuals \in LoadedActuals, people \in LoadedPeople :
          /\ years = [y \in {CUR_YEAR} |->
                        [new_year_block(RSum(default_streams))
                            EXCEPT !.monthly_plan = plan,
                                   !.monthly_actuals = actuals,
                                   !.people_costs = people]]
          /\ call = [fn |-> "storage_read_profile", data |-> years[CUR_YEAR]]
    /\ view_n = 12
    /\ pc = "sidebar"
    /\ interacted = FALSE
    /\ runs = 0
    /\ people_fixed_by_month = <<>>
    /\ df_dash = <<>>
    /\ view_df = <<>>
    /\ df_full = <<>>
    /\ pdf_bytes = NoPdf
    /\ err = "none"
    /\ OneSession

NextLoaded ==
    \/ SidebarPass
    \/ MainPass
    \/ \E row \in BlankRows : PeopleCostsAdd(row)
    \/ Dashboard
    \/ Reports
    \/ GenerateTrackingReport

SpecLoaded == InitLoaded /\ [][NextLoaded]_vars

----------------------------------------------------------------------------
(* The runs that edit the revenue streams and the revenue goal (577-602) *)

StreamRows == {1, 4}
StreamTargets == {0, 500000}
GoalInputs == {2000000}

NextRevenue ==
    \/ SidebarPass
    \/ \E year \in YearChoices : AddEnsureYear(year)
    \/ MainPass
    \/ \E row \in StreamRows, val \in StreamTargets : RevenueStreamEdit(row, Q(val))
    \/ LockGoalToggle
    \/ \E val \in GoalInputs : RevenueGoalInput(Q(val))
    \/ Dashboard
    \/ Reports

SpecRevenue == Init /\ [][NextRevenue]_vars

----------------------------------------------------------------------------
(* Profiles, tasks and completion links over the browser sessions of the app
   (45-93, 379-392, 395-466, 531-543, 709-764).  Every session has its own
   st.session_state; the stores are shared.  One step is one interaction of
   one session together with the script runs it starts. *)

MaxSessions == 2
MaxTasks == 2

\* Names and file names are sequences of characters
MyBusiness == <<"M", "y", " ", "B", "u", "s", "i", "n", "e", "s", "s">>

AcmePty == <<"A", "c", "m", "e", " ", "P", "t", "y">>

\* The first option of the "Open business profile" selectbox (398)
NoneOption == <<"(", "n", "o", "n", "e", ")">>

\* What the "New business name" input is given; the session default is the first
BusinessNames == {MyBusiness, AcmePty}

\* [A-Za-z0-9._-] (46)
SlugChars ==
    {"A", "B", "C", "D", "E", "F", "G", "H", "I", "J", "K", "L", "M", "N", "O", "P", "Q",
     "R", "S", "T", "U", "V", "W", "X", "Y", "Z",
     "a", "b", "c", "d", "e", "f", "g", "h", "i", "j", "k", "l", "m", "n", "o", "p", "q",
     "r", "s", "t", "u", "v", "w", "x", "y", "z",
     "0", "1", "2", "3", "4", "5", "6", "7", "8", "9", ".", "_", "-"}

\* re.sub(r"[^A-Za-z0-9._-]+", "_", name): every run of other characters
\* becomes one "_"
RECURSIVE SubRuns(_, _)
SubRuns(name, inRun) ==
    IF name = <<>> THEN <<>>
    ELSE IF Head(name) \in SlugChars THEN <<Head(name)>> \o SubRuns(Tail(name), FALSE)
    ELSE IF inRun THEN SubRuns(Tail(name), TRUE)
    ELSE <<"_">> \o SubRuns(Tail(name), TRUE)

\* str.strip("_")
RECURSIVE StripUnderscores(_)
StripUnderscores(name) ==
    IF name = <<>> THEN <<>>
    ELSE IF Head(name) = "_" THEN StripUnderscores(Tail(name))
    ELSE IF name[Len(name)] = "_" THEN StripUnderscores(SubSeq(name, 1, Len(name) - 1))
    ELSE name

\* _slugify (45-46)
_slugify(name) ==
    LET given == IF name = <<>> THEN <<"b", "u", "s", "i", "n", "e", "s", "s">> ELSE name
        slug  == StripUnderscores(SubRuns(given, FALSE))
    IN  IF slug = <<>> THEN <<"b", "u", "s", "i", "n", "e", "s", "s">> ELSE slug

\* The options of a task's Status selectbox (753)
TaskStatuses == {"Planned", "In Progress", "Done"}

\* qp.get("complete_task") of a URL without the parameter (381)
NoToken == <<>>

\* uuid4().hex: the n-th value drawn in session s
Uuid(s, n) == <<s, n>>

\* The tokens of the tasks added so far: a completion link was shown for each (756-758)
IssuedTokens ==
    UNION {{Uuid(s, n) : n \in 1..sessions[s].uuids} : s \in DOMAIN sessions}

\* No profile file
NoFiles == [k \in {} |-> <<>>]

\* The store the storage_* functions work on (67-68, 80-81, 93-94)
UsesS3(st) == st.mode = "s3"

ProfileFiles(st) == IF UsesS3(st) THEN st.s3 ELSE st.local

storage_list_profiles(st) == DOMAIN ProfileFiles(st)

\* None stands for the missing file (85-86, 90)
None == [found |-> FALSE]

storage_read_profile(st, name) ==
    IF _slugify(name) \in DOMAIN ProfileFiles(st)
    THEN ProfileFiles(st)[_slugify(name)]
    ELSE None

WriteFile(files, key, data) ==
    [k \in DOMAIN files \cup {key} |-> IF k = key THEN data ELSE files[k]]

RemoveFile(files, key) == [k \in DOMAIN files \ {key} |-> files[k]]

storage_write_profile(st, name, data) ==
    IF UsesS3(st)
    THEN [st EXCEPT !.s3 = WriteFile(st.s3, _slugify(name), data)]
    ELSE [st EXCEPT !.local = WriteFile(st.local, _slugify(name), data)]

\* Lines 455-466 with the box ticked and a profile selected: os.remove of the
\* local file, whatever the storage mode (456-460)
DeleteSelected(st, selected) ==
    [st EXCEPT !.local = RemoveFile(st.local, _slugify(selected))]

\* Lines 538-543 without the break: every task with the token, and every task
\* after the first of them, becomes Done
CompleteTaskNoBreak(tasks, complete_token) ==
    IF complete_token = NoToken
    THEN tasks
    ELSE LET hits == {i \in DOMAIN tasks : tasks[i].token = complete_token}
         IN  [i \in DOMAIN tasks |->
                 IF \E h \in hits : h <= i
                 THEN [tasks[i] EXCEPT !.status = "Done"]
                 ELSE tasks[i]]

\* Lines 538-543: the first task of the year block with the token becomes Done
CompleteTask(tasks, complete_token) ==
    IF complete_token = NoToken
    THEN tasks
    ELSE LET hits == {i \in DOMAIN tasks : tasks[i].token = complete_token}
         IN  IF hits = {}
             THEN tasks
             ELSE LET first == CHOOSE i \in hits : \A j \in hits : i <= j
                  IN  [tasks EXCEPT ![first].status = "Done"]

\* The session a page load starts (383-392) after ensure_year_block (534):
\* a profile without years, whose new year block has no task
NewSession(complete_token) ==
    [complete_token |-> complete_token, business_name |-> MyBusiness,
     tasks |-> <<>>, uuids |-> 0, message |-> <<>>]

\* The script run of session s from the shortcuts on (531-543), on the tasks
\* the session's year block holds when the run starts; message is what the
\* interaction that started it has shown (st.success, st.warning)
RunFrom(s, session, message) ==
    sessions' = [sessions EXCEPT ![s] =
                    [session EXCEPT !.tasks = CompleteTask(session.tasks, session.complete_token),
                                    !.message = message]]

\* The app is opened in a browser, with or without ?complete_task=<token>
OpenApp(complete_token) ==
    /\ Len(sessions) < MaxSessions
    /\ LET session == NewSession(complete_token)
       IN  sessions' = Append(sessions,
                [session EXCEPT !.tasks = CompleteTask(session.tasks, complete_token)])
    /\ UNCHANGED storage

\* "Add task" (726-740): the task is appended as Planned and the script reruns
AddTask(s) ==
    /\ Cardinality(IssuedTokens) < MaxTasks
    /\ LET session == sessions[s]
           n == session.uuids + 1
           t == [token |-> Uuid(s, n), status |-> "Planned"]
       IN  RunFrom(s, [session EXCEPT !.tasks = Append(session.tasks, t), !.uuids = n],
                   <<"Task added.">>)
    /\ UNCHANGED storage

\* The Status selectbox of task idx is given a value (753): the run completes
\* by token first (538-543) and writes the selectbox values back after
SetStatus(s, idx, status) ==
    /\ idx \in DOMAIN sessions[s].tasks
    /\ sessions[s].tasks[idx].status # status
    /\ LET session == sessions[s]
           done == CompleteTask(session.tasks, session.complete_token)
       IN  sessions' = [sessions EXCEPT ![s].tasks = [done EXCEPT ![idx].status = status],
                                        ![s].message = <<>>]
    /\ UNCHANGED storage

\* str.strip()
RECURSIVE Strip(_)
Strip(name) ==
    IF name = <<>> THEN <<>>
    ELSE IF Head(name) = " " THEN Strip(Tail(name))
    ELSE IF name[Len(name)] = " " THEN Strip(SubSeq(name, 1, Len(name) - 1))
    ELSE name

\* new_name.strip() or "My Business" (434, 441)
SaveName(new_name) == IF Strip(new_name) = <<>> THEN MyBusiness ELSE Strip(new_name)

\* "Save" and "Save As" (433-447): the session profile is written under the
\* name in the input, and the script reruns
Save(s, new_name) ==
    /\ LET session == sessions[s]
           name == SaveName(new_name)
           data == [found |-> TRUE, business |-> name, tasks |-> session.tasks]
       IN  /\ storage' = storage_write_profile(storage, name, data)
           /\ RunFrom(s, [session EXCEPT !.business_name = name], <<"Saved.">>)

\* "Open" (399-412): the stored profile replaces the session's, and the script reruns
Open(s, selected) ==
    /\ selected \in storage_list_profiles(storage)
    /\ LET session == sessions[s]
           data == storage_read_profile(storage, selected)
       IN  /\ data # None
           /\ RunFrom(s, [session EXCEPT !.business_name = data.business,
                                         !.tasks = data.tasks],
                       <<"Loaded profile: ", selected>>)
    /\ UNCHANGED storage

\* The "Delete" button of the popover (449-466), with the profile selected in
\* the "Open business profile" selectbox and the confirmation checkbox
Delete(s, selected, confirm) ==
    /\ selected \in {NoneOption} \cup storage_list_profiles(storage)
    /\ storage' = IF confirm /\ selected # NoneOption
                  THEN DeleteSelected(storage, selected)
                  ELSE storage
    /\ RunFrom(s, sessions[s],
               IF ~confirm THEN <<>>
               ELSE IF selected = NoneOption THEN <<"Select a profile to delete.">>
               ELSE <<"Deleted profile: ", selected>>)

\* The variables of the single script run, which these steps do not look at
single == <<years, selected_year, today, view_n, pc, interacted, runs,
            people_fixed_by_month, df_dash, view_df, df_full, pdf_bytes, err, call>>

\* The sessions of one deployment: SD_STORAGE is set when the server starts
InitSessions(modes) ==
    /\ sessions = <<>>
    /\ \E mode \in modes :
          storage = [mode |-> mode, local |-> NoFiles, s3 |-> NoFiles]
    /\ call = NoCall
    /\ years = <<>>
    /\ selected_year = CUR_YEAR
    /\ today = 1
    /\ view_n = 12
    /\ pc = "sessions"
    /\ interacted = FALSE
    /\ runs = 0
    /\ people_fixed_by_month = <<>>
    /\ df_dash = <<>>
    /\ view_df = <<>>
    /\ df_full = <<>>
    /\ pdf_bytes = NoPdf
    /\ err = "none"

OpenPlain == OpenApp(NoToken) /\ UNCHANGED single

OpenLink == \E token \in IssuedTokens : OpenApp(token) /\ UNCHANGED single

TasksAdd == \E s \in DOMAIN sessions : AddTask(s) /\ UNCHANGED single

TasksStatus ==
    \E s \in DOMAIN sessions, idx \in 1..MaxTasks, status \in TaskStatuses :
        SetStatus(s, idx, status) /\ UNCHANGED single

\* "Save" with the name input left as it is
TasksSave ==
    \E s \in DOMAIN sessions : Save(s, sessions[s].business_name) /\ UNCHANGED single

AdminSave ==
    \E s \in DOMAIN sessions, new_name \in BusinessNames :
        Save(s, new_name) /\ UNCHANGED single

AdminOpen ==
    \E s \in DOMAIN sessions, selected \in storage_list_profiles(storage) :
        Open(s, selected) /\ UNCHANGED single

AdminDelete ==
    \E s \in DOMAIN sessions, confirm \in BOOLEAN,
       selected \in {NoneOption} \cup storage_list_profiles(storage) :
        Delete(s, selected, confirm) /\ UNCHANGED single

\* Tasks and completion links of one business, local storage
InitTasks == InitSessions({"local"})

NextTasks ==
    \/ OpenPlain
    \/ OpenLink
    \/ TasksAdd
    \/ TasksStatus
    \/ TasksSave
    \/ AdminOpen

SpecTasks == InitTasks /\ [][NextTasks]_vars

\* The Admin expander over the stored profiles, in either storage mode
InitStorage == InitSessions({"local", "s3"})

NextStorage ==
    \/ OpenPlain
    \/ TasksAdd
    \/ AdminSave
    \/ AdminOpen
    \/ AdminDelete

SpecStorage == InitStorage /\ [][NextStorage]_vars

\* Businesses saved under names that differ in a character outside
\* [A-Za-z0-9._-], or not given a name
NameInputs == {<<"A", " ", "B">>, <<"A", "_", "B">>, <<"A", "B">>, <<>>}

NamesSave ==
    \E s \in DOMAIN sessions, new_name \in NameInputs :
        Save(s, new_name) /\ UNCHANGED single

InitNames == InitSessions({"local", "s3"})

NextNames ==
    \/ OpenPlain
    \/ NamesSave
    \/ AdminOpen

SpecNames == InitNames /\ [][NextNames]_vars

----------------------------------------------------------------------------
(* RatePlanner (Trade Profit Calculator), spec.md section 4.5: the blended rate
   a roster has to charge to reach a target, solved on its own inputs *)

MaxMembers == 2

\* The fixed weeks-per-month figure of the pro-rating
WeeksPerMonth == Frac(433, 100)

\* The floor of the denominators
Epsilon == Frac(1, 1000000)

Pct(p) == Frac(p, 100)

\* x <= y: by the whole parts, then by the fractional parts
RLe(x, y) ==
    LET fx == x.n \div x.d
        fy == y.n \div y.d
    IN  \/ fx < fy
        \/ fx = fy /\ (x.n - fx * x.d) * y.d <= (y.n - fy * y.d) * x.d

RMax(x, y) == IF RLe(x, y) THEN y ELSE x

\* Roster members: one with capacity and no demand, one with demand and no
\* capacity, one paid and not utilised
RateMembers ==
    {[paidHoursPerWeek |-> 5, utilisationPct |-> 100, quotesPerWeek |-> 0,
      quoteToJobPct |-> 50, avgJobHours |-> 4, hourlyWageCost |-> 1, vanMonthly |-> 0],
     [paidHoursPerWeek |-> 0, utilisationPct |-> 50, quotesPerWeek |-> 2,
      quoteToJobPct |-> 50, avgJobHours |-> 4, hourlyWageCost |-> 1, vanMonthly |-> 20],
     [paidHoursPerWeek |-> 5, utilisationPct |-> 0, quotesPerWeek |-> 2,
      quoteToJobPct |-> 0, avgJobHours |-> 4, hourlyWageCost |-> 2, vanMonthly |-> 0]}

Rosters == UNION {[1..len -> RateMembers] : len \in 0..MaxMembers}

\* The inputs of the planner; materials % + target margin % stays below 100
RateInputs ==
    [weeks : {WeeksPerMonth}, materialsPct : {0, 50}, roster : Rosters,
     marketingPerMonth : {0, 10}, otherOverheadsPerMonth : {0, 5},
     hoursSource : {"Capacity", "Demand"},
     targetMode : {"ProfitAmount", "MarginPercent"}, target : {0, 20},
     currentRate : {0, 50}]

\* Per-member derived values
paidHoursPeriod(mb, weeks) == RMul(Q(mb.paidHoursPerWeek), weeks)

billableHoursCapacity(mb, weeks) == RMul(paidHoursPeriod(mb, weeks), Pct(mb.utilisationPct))

jobsFromQuotes(mb, weeks) == RMul(RMul(Q(mb.quotesPerWeek), weeks), Pct(mb.quoteToJobPct))

billableHoursDemand(mb, weeks) == RMul(jobsFromQuotes(mb, weeks), Q(mb.avgJobHours))

wageCostPeriod(mb, weeks) == RMul(Q(mb.hourlyWageCost), paidHoursPeriod(mb, weeks))

vanCostPeriod(mb, weeks) == RMul(Q(mb.vanMonthly), RDiv(weeks, WeeksPerMonth))

\* The hours of the selected source
billableHours(mb, in) ==
    IF in.hoursSource = "Capacity"
    THEN billableHoursCapacity(mb, in.weeks)
    ELSE billableHoursDemand(mb, in.weeks)

\* Aggregates
AggregateHours(in) == RSum([i \in DOMAIN in.roster |-> billableHours(in.roster[i], in)])

peopleCosts(in) ==
    RSum([i \in DOMAIN in.roster |->
            RAdd(wageCostPeriod(in.roster[i], in.weeks), vanCostPeriod(in.roster[i], in.weeks))])

marketingPeriod(in) == RMul(Q(in.marketingPerMonth), RDiv(in.weeks, WeeksPerMonth))

otherPeriod(in) == RMul(Q(in.otherOverheadsPerMonth), RDiv(in.weeks, WeeksPerMonth))

PeriodCosts(in) == RAdd(peopleCosts(in), RAdd(marketingPeriod(in), otherPeriod(in)))

\* The rate equation without its "if H>0 else 0"
RequiredRateUnguarded(in, H) ==
    LET m == Pct(in.materialsPct)
    IN  IF in.targetMode = "ProfitAmount"
        THEN RDiv(RAdd(Q(in.target), PeriodCosts(in)),
                  RMax(Epsilon, RMul(H, RSub(Q(1), m))))
        ELSE RDiv(PeriodCosts(in),
                  RMax(Epsilon, RMul(H, RSub(RSub(Q(1), m), Pct(in.target)))))

\* The rate equation of the two target modes
RequiredRate(in, H) ==
    IF Gt0(H) THEN RequiredRateUnguarded(in, H) ELSE Q(0)

\* Per-person allocation at the required rate
PerPersonAllocation(in, requiredRate) ==
    LET m == Pct(in.materialsPct)
        revenue == [i \in DOMAIN in.roster |-> RMul(requiredRate, billableHours(in.roster[i], in))]
        totalRevenue == RSum(revenue)
    IN  [i \in DOMAIN in.roster |->
            LET cogs == IF Gt0(totalRevenue) THEN RMul(m, revenue[i]) ELSE Q(0)
                overheadAlloc == IF Gt0(totalRevenue)
                                 THEN RMul(RAdd(marketingPeriod(in), otherPeriod(in)),
                                           RDiv(revenue[i], totalRevenue))
                                 ELSE Q(0)
            IN  [revenueAtRequired |-> revenue[i],
                 COGS |-> cogs,
                 overheadAlloc |-> overheadAlloc,
                 profit |-> RSub(RSub(RSub(RSub(revenue[i], cogs),
                                           wageCostPeriod(in.roster[i], in.weeks)),
                                      vanCostPeriod(in.roster[i], in.weeks)),
                                 overheadAlloc)]]

\* RateSolution
RateSolution(in) ==
    LET H == AggregateHours(in)
        m == Pct(in.materialsPct)
        requiredRate == RequiredRate(in, H)
        revenueAtCurrent == RMul(Q(in.currentRate), H)
        profitAtCurrent == RSub(RSub(revenueAtCurrent, RMul(m, revenueAtCurrent)), PeriodCosts(in))
    IN  [billableHours |-> H,
         requiredRate |-> requiredRate,
         profitAtCurrentRate |-> profitAtCurrent,
         marginPctAtCurrentRate |->
            IF Gt0(revenueAtCurrent)
            THEN RMul(RDiv(profitAtCurrent, revenueAtCurrent), Q(100))
            ELSE Q(0),
         perPersonAllocation |-> PerPersonAllocation(in, requiredRate)]

InitRate ==
    /\ \E in \in RateInputs : call = [fn |-> "RatePlanner", in |-> in, solved |-> FALSE]
    /\ years = <<>>
    /\ selected_year = CUR_YEAR
    /\ today \in TodayMonths
    /\ view_n = 12
    /\ pc = "call"
    /\ interacted = FALSE
    /\ runs = 0
    /\ people_fixed_by_month = <<>>
    /\ df_dash = <<>>
    /\ view_df = <<>>
    /\ df_full = <<>>
    /\ pdf_bytes = NoPdf
    /\ err = "none"
    /\ OneSession

\* The planner solves its inputs
SolveRate ==
    /\ call.fn = "RatePlanner"
    /\ ~call.solved
    /\ call' = [fn |-> "RatePlanner", in |-> call.in, solved |-> TRUE,
                solution |-> RateSolution(call.in)]
    /\ UNCHANGED script

NextRate == SolveRate

SpecRate == InitRate /\ [][NextRate]_vars

----------------------------------------------------------------------------
(* Properties *)

\* The rows the run has put on the dashboard and in the report
DashRows == {df_dash[i] : i \in 1..Len(df_dash)}

ViewRows == {view_df[i] : i \in 1..Len(view_df)}

FullRows == {df_full[i] : i \in 1..Len(df_full)}

\* The dashboard and the report of the run are both computed
RunComplete == pc = "sidebar" /\ runs > 0 /\ err = "none"

\* C1: every dashboard and report row has operatingProfit = revenueActual -
\* costOfSales - peopleFixed - otherOverheads, an input the month has no record
\* of counting as 0
C1_OperatingProfitIdentity ==
    \A r \in DashRows \cup {[c \in DOMAIN f \ {"BreakEvenRevenue"} |-> f[c]] : f \in FullRows} :
        r.OperatingProfit =
            RSub(RSub(RSub(FillNa(r.RevenueActual), FillNa(r.CostOfSales)), r.PeopleFixed),
                 FillNa(r.OtherOverheads))

\* C2: marginPct is None exactly when revenueActual is not greater than 0, and
\* otherwise marginPct * revenueActual = (revenueActual - costOfSales) * 100
C2_MarginPct ==
    \A r \in DashRows \cup ViewRows \cup FullRows :
        /\ IsNaN(r.MarginPct) <=> ~Gt0(r.RevenueActual)
        /\ Gt0(r.RevenueActual) =>
              RMul(r.MarginPct, r.RevenueActual)
                  = RMul(RSub(r.RevenueActual, r.CostOfSales), Q(100))

\* C2 witness: a computed dashboard and report with a month without revenue
\* and a month with revenue
C2_Witness ==
    /\ RunComplete
    /\ \E r \in DashRows : r.RevenueActual = Q(0) /\ IsNaN(r.MarginPct)
    /\ \E r \in DashRows : Gt0(r.RevenueActual) /\ Gt0(r.CostOfSales) /\ ~IsNaN(r.MarginPct)
    /\ \E r \in FullRows : r.RevenueActual = Q(0) /\ IsNaN(r.MarginPct)

\* C5: every year block holds exactly 12 monthly_plan and 12 monthly_actuals
\* records, one for each canonical month
C5_TwelveDistinctMonths ==
    \A y \in DOMAIN years :
        /\ Len(years[y].monthly_plan) = 12
        /\ Len(years[y].monthly_actuals) = 12
        /\ MonthSet(years[y].monthly_plan) = MonthNames
        /\ MonthSet(years[y].monthly_actuals) = MonthNames

\* The people cost table of the selected year without its k-th row
WithoutPerson(yb, k) ==
    [yb EXCEPT !.people_costs =
        [i \in 1..(Len(yb.people_costs) - 1) |->
            IF i < k THEN yb.people_costs[i] ELSE yb.people_costs[i + 1]]]

\* What the k-th person adds to the people fixed cost of month idx
Contribution(k, idx) ==
    RSub(people_fixed_by_month[idx],
         PeopleFixedByMonth(per_person(WithoutPerson(years[selected_year], k)))[idx])

\* The monthly fixed costs of the run are computed
FixedComputed == people_fixed_by_month # <<>>

\* C3: a person adds to the people fixed cost of month i iff i >= startMonth,
\* and then adds the full monthly amount, the same in every counted month
C3_StartMonthGate ==
    FixedComputed =>
        \A k \in 1..Len(years[selected_year].people_costs) :
            LET p      == years[selected_year].people_costs[k]
                amount == Contribution(k, 12)
            IN  \A idx \in 1..12 :
                    Contribution(k, idx) = IF idx >= p.StartMonth THEN amount ELSE Q(0)

\* C3 witness: one person starting in month 1 and one starting in month 7, both
\* with a cost, counted in 12 and in 6 months
C3_Witness ==
    /\ FixedComputed
    /\ \E k \in 1..Len(years[selected_year].people_costs) :
          /\ years[selected_year].people_costs[k].StartMonth = 1
          /\ \A idx \in 1..12 : Gt0(Contribution(k, idx))
    /\ \E k \in 1..Len(years[selected_year].people_costs) :
          /\ years[selected_year].people_costs[k].StartMonth = 7
          /\ \A idx \in 1..6 : Contribution(k, idx) = Q(0)
          /\ \A idx \in 7..12 : Gt0(Contribution(k, idx))

\* C4 as claimed: a counted person adds annualCost/12 plus extraMonthly when
\* extraMonthly > 0, otherwise plus the van default when hasVan is set
C4_ExtraOrVan ==
    FixedComputed =>
        \A k \in 1..Len(years[selected_year].people_costs) :
            LET p   == years[selected_year].people_costs[k]
                van == years[selected_year].van_monthly_default
            IN  RMul(Q(12), Contribution(k, 12)) =
                    RAdd(Q(p.AnnualCost),
                         RMul(Q(12), IF p.ExtraMonthly > 0 THEN Q(p.ExtraMonthly)
                                     ELSE IF p.HasVan THEN van ELSE Q(0)))

\* C4 amended: a counted person adds annualCost/12 plus extraMonthly, plus the
\* van default when hasVan is set (12 times the amount is annualCost +
\* 12*extraMonthly + 12*van default)
C4_ExtraPlusVan ==
    FixedComputed =>
        \A k \in 1..Len(years[selected_year].people_costs) :
            LET p   == years[selected_year].people_costs[k]
                van == years[selected_year].van_monthly_default
            IN  RMul(Q(12), Contribution(k, 12)) =
                    RAdd(Q(p.AnnualCost + 12 * p.ExtraMonthly),
                         IF p.HasVan THEN RMul(Q(12), van) ELSE Q(0))

\* C4 witness: a person with a van and an extra monthly cost, the van default
\* being positive
C4_Witness ==
    /\ FixedComputed
    /\ Gt0(years[selected_year].van_monthly_default)
    /\ \E k \in 1..Len(years[selected_year].people_costs) :
          /\ years[selected_year].people_costs[k].HasVan
          /\ years[selected_year].people_costs[k].ExtraMonthly > 0
          /\ years[selected_year].people_costs[k].AnnualCost > 0

\* The cost ratio the claim infers: the mean of costOfSales/revenueActual over the
\* rows with revenue, clamped to [0, 0.95], and 0.25 when there is none
ClaimedCostRatio(rows) ==
    LET ratios == SelectSeq([i \in 1..Len(rows) |->
                               IF Gt0(rows[i].RevenueActual)
                               THEN RDiv(rows[i].CostOfSales, rows[i].RevenueActual)
                               ELSE NaN],
                            LAMBDA x : ~IsNaN(x))
        mean   == RDiv(RSum(ratios), Q(Len(ratios)))
    IN  IF ratios = <<>> THEN Frac(25, 100)
        ELSE IF Lt0(mean) THEN Q(0)
        ELSE IF Gt0(RSub(mean, Frac(95, 100))) THEN Frac(95, 100)
        ELSE mean

\* fixedCosts / max(epsilon, 1 - costRatio), epsilon = 1e-6
ClaimedBreakEven(r, ratio) ==
    LET rest == RSub(Q(1), ratio)
        eps  == Frac(1, 1000000)
    IN  RDiv(RAdd(r.PeopleFixed, r.OtherOverheads),
             IF Gt0(RSub(rest, eps)) THEN rest ELSE eps)

WindowMargins == {i \in 1..Len(view_df) : Gt0(view_df[i].MarginPct)}

RECURSIVE MarginSum(_)
MarginSum(I) ==
    IF I = {} THEN Q(0)
    ELSE LET i == CHOOSE x \in I : TRUE
         IN  RAdd(view_df[i].MarginPct, MarginSum(I \ {i}))

NoRevenue ==
    \A r \in DashRows \cup FullRows : ~Gt0(r.RevenueActual)

\* C7 as claimed: without any revenue every month's break-even revenue is
\* (peopleFixed + otherOverheads) / 0.75
C7_DefaultRatioQuarter ==
    NoRevenue =>
        \A r \in ViewRows \cup FullRows :
            ~IsNaN(r.OtherOverheads) =>
                RMul(r.BreakEvenRevenue, Frac(75, 100)) = RAdd(r.PeopleFixed, r.OtherOverheads)

\* C7 amended: without any revenue every month's break-even revenue is computed
\* with the default margin of 40%: it is (peopleFixed + otherOverheads) / 0.4, in
\* the dashboard and in the report
C7_DefaultMarginForty ==
    NoRevenue =>
        \A r \in ViewRows \cup FullRows :
            IF IsNaN(r.OtherOverheads) THEN IsNaN(r.BreakEvenRevenue)
            ELSE RMul(r.BreakEvenRevenue, Q(4)) = RMul(RAdd(r.PeopleFixed, r.OtherOverheads), Q(10))

\* C7 witness: a computed dashboard and report of a year without revenue and with
\* fixed costs
C7_Witness ==
    /\ RunComplete /\ df_full # <<>> /\ NoRevenue
    /\ \E r \in ViewRows : Gt0(r.PeopleFixed) /\ Gt0(r.OtherOverheads) /\ Gt0(r.BreakEvenRevenue)
    /\ \E r \in FullRows : Gt0(r.PeopleFixed) /\ Gt0(r.BreakEvenRevenue)

\* C8: every break-even computation divides by a strictly positive number: none
\* raises a division error and none yields a negative or undefined value
C8_PositiveDivisor ==
    /\ err # "ZeroDivisionError"
    /\ \A r \in ViewRows :
          Gt0(BreakEvenMarginRatio(r, FallbackMargin(view_df))) /\ ~Lt0(r.BreakEvenRevenue)
    /\ \A r \in FullRows : Gt0(ReportDivisor(r)) /\ ~Lt0(r.BreakEvenRevenue)

\* C9: a month's BreakEvenRevenue in the 12-month dashboard window equals the
\* BreakEvenRevenue of the same month's row in the report
C9_OneBreakEven ==
    view_n = 12 =>
        \A v \in ViewRows, f \in FullRows :
            (/\ v.Month = f.Month
             /\ v.RevenueActual = f.RevenueActual
             /\ v.CostOfSales = f.CostOfSales
             /\ v.OtherOverheads = f.OtherOverheads)
            => v.BreakEvenRevenue = f.BreakEvenRevenue

\* The stored records carry only the input columns
StoredShape(yrs) ==
    \A y \in DOMAIN yrs :
        /\ \A i \in 1..Len(yrs[y].monthly_plan) :
              DOMAIN yrs[y].monthly_plan[i] = {"Month", "PlannedRevenue"}
        /\ \A i \in 1..Len(yrs[y].monthly_actuals) :
              DOMAIN yrs[y].monthly_actuals[i]
                  = {"Month", "RevenueActual", "CostOfSales", "OtherOverheads"}

\* The step computes the dashboard or the report
Computes == pc \in {"dash", "report"}

\* C10: every step leaves the stored monthly_plan and monthly_actuals records
\* with their input columns only, and a step that computes the dashboard or the
\* report leaves plan, actuals and people costs of every year block unchanged
C10_DerivedNeverStored ==
    [][/\ StoredShape(years')
       /\ Computes =>
            /\ DOMAIN years' = DOMAIN years
            /\ \A y \in DOMAIN years :
                  /\ years'[y].monthly_plan = years[y].monthly_plan
                  /\ years'[y].monthly_actuals = years[y].monthly_actuals
                  /\ years'[y].people_costs = years[y].people_costs]_vars

\* C10 witness: dashboard and report are computed, with derived values, from a
\* year block holding a people cost and an entered month
C10_Witness ==
    /\ RunComplete /\ df_full # <<>>
    /\ years[selected_year].people_costs # <<>>
    /\ \E r \in ViewRows : Gt0(r.RevenueActual) /\ Gt0(r.PeopleFixed) /\ Gt0(r.BreakEvenRevenue)
    /\ \E r \in FullRows : Gt0(r.RevenueActual) /\ Lt0(r.OperatingProfit)

\* rotate_months_from(k1) is computed
Rotated == call.fn = "rotate_months_from" /\ call.once # <<>>

\* Its result is rotated again
RotatedTwice == call.fn = "rotate_months_from" /\ call.twice # <<>>

\* C11: for a start index in 1..12 rotate_months_from returns 12 months, every
\* canonical month exactly once, the first being the month of that index; start
\* index 1 gives the canonical order
C11_RotationIsPermutation ==
    (Rotated /\ call.k1 \in 1..12) =>
        /\ Len(call.once) = 12
        /\ \A m \in MonthNames : Cardinality({i \in 1..12 : call.once[i] = m}) = 1
        /\ call.once[1] = MONTHS[call.k1]
        /\ call.k1 = 1 => call.once = MONTHS

\* C11 witness: the rotation from July: July first, June last
C11_Witness ==
    /\ Rotated /\ call.k1 = 7
    /\ call.once[1] = "July" /\ call.once[6] = "December"
    /\ call.once[7] = "January" /\ call.once[12] = "June"

\* C12 as claimed: rotating from start index k1 and the result from start index
\* k2 gives the rotation from start index (k1 + k2) mod 12
C12_ComposeStartIndices ==
    RotatedTwice => call.twice = rotate_months_from((call.k1 + call.k2) % 12)

\* C12 amended: the offsets add, an offset being the start index less 1: rotating
\* from start index k1 and the result from start index k2 gives the rotation from
\* start index k1 + k2 - 1; and any integer start index gives the rotation of its
\* value mod 12 (k and k + 12 coincide)
C12_ComposeOffsets ==
    /\ RotatedTwice => call.twice = rotate_months_from(call.k1 + call.k2 - 1)
    /\ Rotated =>
          /\ call.once = rotate_months_from(call.k1 % 12)
          /\ call.once = rotate_months_from(call.k1 + 12)
          /\ Len(call.once) = 12

\* C12 witness: from start index 20 (August) and then from start index -3
\* (September, 8 places on): April first
C12_Witness ==
    /\ RotatedTwice /\ call.k1 = 20 /\ call.k2 = 0 - 3
    /\ call.once[1] = "August"
    /\ call.twice[1] = "April"

\* The dashboard table of the run for every account start month: put in
\* calendar order, it is the computed table in calendar order
SameRowsFromEveryStart ==
    df_dash # <<>> =>
        \A s \in 1..12 :
            \E other \in {DfDash([years[selected_year] EXCEPT !.account_start_date = s],
                                 people_fixed_by_month)} :
                SortByMIdx(other, MONTHS, 0) = SortByMIdx(df_dash, MONTHS, 0)

\* C13: the account start date affects the order of the dashboard rows only:
\* for every start month each canonical month's dashboard row has the same
\* plan, actuals, PeopleFixed, GrossMargin, OperatingProfit and MarginPct, and
\* a step that changes the account start date of a year leaves its stored
\* monthly_plan and monthly_actuals as they are
C13_StartDateOrdersOnly ==
    /\ []SameRowsFromEveryStart
    /\ [][\A y \in (DOMAIN years) \cap (DOMAIN years') :
             years'[y].account_start_date # years[y].account_start_date =>
                 /\ years'[y].monthly_plan = years[y].monthly_plan
                 /\ years'[y].monthly_actuals = years[y].monthly_actuals]_vars

\* C13 witness: a dashboard computed after the account start date was moved to
\* July, July being its first row, with people fixed costs that differ between
\* months
C13_Witness ==
    /\ df_dash # <<>>
    /\ years[selected_year].account_start_date = 7 /\ today # 7
    /\ df_dash[1].Month = "July"
    /\ \E r1 \in DashRows, r2 \in DashRows :
          r1.PeopleFixed # r2.PeopleFixed /\ r1.OperatingProfit # r2.OperatingProfit

\* The first render of an opened profile is through the Monthly Plan & Actuals
\* section or has raised in it
FirstRender ==
    /\ call.fn = "storage_read_profile"
    /\ runs = 1 /\ pc # "main"
    /\ people_fixed_by_month # <<>>

\* C14: a render replaces a stored monthly_plan (monthly_actuals) that does not
\* cover exactly the 12 canonical months with the 12-month default set, and
\* leaves an array that covers them exactly as it was stored
C14_RepairOneArray ==
    FirstRender =>
        LET before == call.data
            after  == years[selected_year]
        IN  /\ IF MonthSet(before.monthly_plan) # MonthNames
               THEN after.monthly_plan = default_monthly_plan(after.revenue_goal)
               ELSE after.monthly_plan = before.monthly_plan
            /\ IF MonthSet(before.monthly_actuals) # MonthNames
               THEN after.monthly_actuals = default_monthly_actuals
               ELSE after.monthly_actuals = before.monthly_actuals

\* A people cost row with its negative AnnualCost and ExtraMonthly taken as 0
ClampRow(row) ==
    [c \in DOMAIN row |->
        IF c \in {"AnnualCost", "ExtraMonthly"}
        THEN (IF row[c] < 0 THEN 0 ELSE row[c])
        ELSE row[c]]

\* The year block with every people cost row changed by Op
WithPeople(yb, Op(_)) ==
    [yb EXCEPT !.people_costs = [i \in 1..Len(yb.people_costs) |-> Op(yb.people_costs[i])]]

\* The monthly fixed costs of the run are computed and the year block is the
\* one they were computed from
FixedOfYear == pc # "main" /\ people_fixed_by_month # <<>>

\* C15: no negative PlannedRevenue, RevenueActual, CostOfSales or OtherOverheads
\* is in a dashboard or report row, and the people fixed costs are the ones of
\* the people cost rows with a negative AnnualCost or ExtraMonthly taken as 0
C15_NegativesClamped ==
    /\ \A r \in DashRows \cup FullRows :
          /\ ~Lt0(r.PlannedRevenue) /\ ~Lt0(r.RevenueActual)
          /\ ~Lt0(r.CostOfSales) /\ ~Lt0(r.OtherOverheads)
    /\ FixedOfYear =>
          people_fixed_by_month =
              PeopleFixedByMonth(per_person(WithPeople(years[selected_year], ClampRow)))

\* A people cost row with its blank AnnualCost and ExtraMonthly taken as 0 and
\* its blank StartMonth as 1
ZeroBlanks(row) ==
    [c \in (DOMAIN row) \cup {"AnnualCost", "StartMonth", "ExtraMonthly"} |->
        IF c \in DOMAIN row THEN row[c]
        ELSE IF c = "StartMonth" THEN 1 ELSE 0]

\* C16: the monthly fixed cost computation of every run completes, and its
\* result is the one of the people cost rows with a blank AnnualCost or
\* ExtraMonthly taken as 0 and a blank StartMonth as 1
C16_BlanksAsZero ==
    (runs > 0 /\ pc # "main") =>
        /\ people_fixed_by_month # <<>>
        /\ people_fixed_by_month =
              PeopleFixedByMonth(per_person(WithPeople(years[selected_year], ZeroBlanks)))

\* revenue_goal arguments of ensure_year_block: 0.0 (478, 509, 534) and a total
\* of revenue streams (472-474)
EnsureGoals == {Q(0), Q(5), RSum(default_streams)}

\* ensure_year_block changes no year the profile has
EnsureKeepsYears ==
    \A y \in DOMAIN years, g \in EnsureGoals : ensure_year_block(years, y, g) = years

\* C17: a year block is created with the full defaults when its year is first
\* referenced; no step removes a year key, ensure_year_block with any
\* revenue_goal changes no field of a year the profile has, and selecting
\* another year with Add / Ensure Year leaves every existing year block as it is
C17_YearBlockStays ==
    /\ []EnsureKeepsYears
    /\ [][/\ DOMAIN years \subseteq DOMAIN years'
          /\ \A y \in (DOMAIN years') \ (DOMAIN years) :
                \E g \in EnsureGoals : years'[y] = new_year_block(g)
          /\ selected_year' # selected_year =>
                \A y \in DOMAIN years : years'[y] = years[y]]_vars

\* C17 witness: a second year was added and selected after the first year's
\* block had been edited, and the first year's block still has the edit
C17_Witness ==
    /\ DOMAIN years = {CUR_YEAR, CUR_YEAR + 1}
    /\ selected_year = CUR_YEAR + 1
    /\ years[CUR_YEAR].people_costs # <<>>
    /\ years[CUR_YEAR + 1].people_costs = <<>>
    /\ RunComplete

\* The rows of the report table with a recorded month: revenueActual > 0 or
\* costOfSales > 0 or otherOverheads > 0
RecordedRows ==
    {i \in 1..Len(df_full) : \/ Gt0(df_full[i].RevenueActual)
                             \/ Gt0(df_full[i].CostOfSales)
                             \/ Gt0(df_full[i].OtherOverheads)}

\* The sum of a column over the rows I of the report table, a missing value
\* counting as 0
RECURSIVE ColumnSum(_, _)
ColumnSum(I, c) ==
    IF I = {} THEN Q(0)
    ELSE LET i == CHOOSE x \in I : TRUE
         IN  RAdd(FillNa(df_full[i][c]), ColumnSum(I \ {i}, c))

\* C18: the annualised run-rate figures of the tracking report are (sum over
\* the year's rows) / (number of recorded months) * 12, and 0 when no month is
\* recorded
C18_RunRate ==
    pdf_bytes.made =>
        LET n == Cardinality(RecordedRows)
        IN  /\ pdf_bytes.months_recorded = n
            /\ IF n = 0
               THEN pdf_bytes.runrate_rev = Q(0) /\ pdf_bytes.runrate_profit = Q(0)
               ELSE /\ RMul(pdf_bytes.runrate_rev, Q(n))
                        = RMul(ColumnSum(1..Len(df_full), "RevenueActual"), Q(12))
                    /\ RMul(pdf_bytes.runrate_profit, Q(n))
                        = RMul(ColumnSum(1..Len(df_full), "OperatingProfit"), Q(12))

\* C18 witness: a tracking report over two recorded months, one of them
\* recorded by its cost of sales alone, with a run-rate revenue of 12
C18_Witness ==
    /\ pdf_bytes.made
    /\ pdf_bytes.months_recorded = 2
    /\ \E i \in RecordedRows : ~Gt0(df_full[i].RevenueActual)
    /\ pdf_bytes.ytd_rev = Q(2)
    /\ pdf_bytes.runrate_rev = Q(12)
    /\ Lt0(pdf_bytes.runrate_profit)

\* The year block's task with the token is Done
TaskDone(tasks, token) ==
    \E i \in DOMAIN tasks : tasks[i].token = token /\ tasks[i].status = "Done"

\* C19: for every task that was added, the run that opening the app with
\* ?complete_task=<its token> starts ends with that task Done in the year block
\* of the session's profile
C19_LinkCompletesTask ==
    [][\A token \in IssuedTokens :
          OpenApp(token) => TaskDone(sessions'[Len(sessions')].tasks, token)]_vars

\* A step that is a confirmed Delete of a selected profile leaves the profile
\* neither listed nor readable
ConfirmedDeleteRemoves ==
    \A s \in DOMAIN sessions, selected \in storage_list_profiles(storage) :
        Delete(s, selected, TRUE) =>
            /\ selected \notin storage_list_profiles(storage')
            /\ storage_read_profile(storage', selected) = None

\* A step that takes a profile file away from a store is a Delete with the box
\* ticked and a profile selected
OnlyConfirmedDeleteRemoves ==
    (\/ ~(DOMAIN storage.local \subseteq DOMAIN storage'.local)
     \/ ~(DOMAIN storage.s3 \subseteq DOMAIN storage'.s3))
        => \E s \in DOMAIN sessions, selected \in storage_list_profiles(storage) :
              selected # NoneOption /\ Delete(s, selected, TRUE)

\* C20: after a confirmed Delete of a selected profile, storage_list_profiles()
\* no longer lists it and storage_read_profile() no longer returns it, in local
\* and in s3 mode; and a profile is deleted only by a Delete with the
\* confirmation ticked and a profile other than "(none)" selected
C20_DeleteIsPermanent ==
    [][ConfirmedDeleteRemoves /\ OnlyConfirmedDeleteRemoves]_vars

\* C21: when the aggregate billable hours H are 0, the planner's required rate
\* is 0 and every per-person revenue figure is 0, in ProfitAmount and in
\* MarginPercent mode; the solution is made of numbers, no division failed
C21_NoHoursNoRate ==
    (call.fn = "RatePlanner" /\ call.solved /\ call.solution.billableHours = Q(0))
        => /\ call.solution.requiredRate = Q(0)
           /\ \A i \in DOMAIN call.solution.perPersonAllocation :
                 call.solution.perPersonAllocation[i].revenueAtRequired = Q(0)
           /\ ~IsNaN(call.solution.profitAtCurrentRate)
           /\ ~IsNaN(call.solution.marginPctAtCurrentRate)
           /\ \A i \in DOMAIN call.solution.perPersonAllocation :
                 ~IsNaN(call.solution.perPersonAllocation[i].profit)

\* A paid roster of two without billable hours, solved for a margin target
C21_Witness ==
    /\ call.fn = "RatePlanner"
    /\ call.solved
    /\ call.in.targetMode = "MarginPercent"
    /\ call.in.target = 20
    /\ Len(call.in.roster) = 2
    /\ Gt0(peopleCosts(call.in))
    /\ call.solution.billableHours = Q(0)
    /\ call.solution.requiredRate = Q(0)

\* What a step leaves of the stored years when it may write the three actuals
\* of month m in the selected year, and nothing when m is not in the table
EntryFrame(m) ==
    LET old == years[selected_year]
        new == years'[selected_year]
    IN  /\ DOMAIN years' = DOMAIN years
        /\ \A y \in DOMAIN years : y # selected_year => years'[y] = years[y]
        /\ [new EXCEPT !.monthly_actuals = old.monthly_actuals] = old
        /\ Len(new.monthly_actuals) = Len(old.monthly_actuals)
        /\ \A i \in 1..Len(old.monthly_actuals) :
              /\ old.monthly_actuals[i].Month # m
                    => new.monthly_actuals[i] = old.monthly_actuals[i]
              /\ [new.monthly_actuals[i] EXCEPT
                        !.RevenueActual = old.monthly_actuals[i].RevenueActual,
                        !.CostOfSales = old.monthly_actuals[i].CostOfSales,
                        !.OtherOverheads = old.monthly_actuals[i].OtherOverheads]
                    = old.monthly_actuals[i]
        /\ m \notin MonthSet(old.monthly_actuals) => years' = years

WindowMonths(s, n) == [i \in 1..n |-> MONTHS[((s + i - 2) % 12) + 1]]

\* The dashboard rows of the months of a window
RowsOf(dash, months) ==
    SelectSeq(dash, LAMBDA r : \E i \in 1..Len(months) : months[i] = r.Month)

\* C23: for view window n and account start month s the dashboard window is
\* the n consecutive calendar months s, s+1, ..., s+n-1, each once and in that
\* order, and months recorded, revenue and operating profit of the window are
\* taken over the dashboard rows of exactly those months
C23_WindowIsNextMonths ==
    (pc = "report" /\ err = "none") =>
        LET months == WindowMonths(years[selected_year].account_start_date, view_n)
        IN  /\ [i \in 1..Len(view_df) |-> view_df[i].Month] = months
            /\ WindowMetrics(view_df) = WindowMetrics(RowsOf(df_dash, months))

\* The divisor of every break-even revenue of the window is strictly positive
WindowDivisorsPositive ==
    \A i \in 1..Len(view_df) :
        Gt0(BreakEvenMarginRatio(view_df[i], FallbackMargin(Head_n(df_dash, view_n))))

\* C24: in the dashboard window the break-even revenue of every month is
\* defined and not negative, its divisor being the month's own positive margin
\* or the fallback margin, which is strictly positive
C24_BreakEvenDefined ==
    /\ WindowDivisorsPositive
    /\ \A i \in 1..Len(view_df) :
          /\ ~IsNaN(view_df[i].BreakEvenRevenue)
          /\ view_df[i].BreakEvenRevenue.n >= 0

\* C25: whenever lock_goal is true at the end of a render, the revenue_goal of
\* the year block equals the sum of TargetValue over the revenue_streams stored
\* in that year block, also in the render in which a target was edited
C25_LockedGoalIsStreamsTotal ==
    (pc = "sidebar" /\ runs > 0 /\ err = "none") =>
        LET yb == years[selected_year]
        IN  yb.lock_goal => yb.revenue_goal = RSum(yb.revenue_streams)

\* The names of the stored profiles
StoredNames == {ProfileFiles(storage)[k].business : k \in storage_list_profiles(storage)}

\* C26: distinct business names are stored under distinct keys: Save or Save As
\* of a profile named a leaves the stored profile of every other name b as it
\* is, and opening b afterwards returns b's data
C26_DistinctNamesDistinctKeys ==
    [][\A s \in DOMAIN sessions, a \in NameInputs :
          Save(s, a) =>
              \A b \in StoredNames :
                  b # SaveName(a) =>
                      storage_read_profile(storage', b) = storage_read_profile(storage, b)]_vars

\* after is before but for the status of the first task of before that has the
\* token, which is Done; with no such task after is before
TokenFrame(before, after, token) ==
    /\ Len(after) = Len(before)
    /\ \A i \in DOMAIN before :
          /\ after[i].token = before[i].token
          /\ IF /\ before[i].token = token
                /\ \A j \in 1..(i - 1) : before[j].token # token
             THEN after[i].status = "Done"
             ELSE after[i].status = before[i].status

\* C27: processing a complete_task token changes nothing but the status of at
\* most one task: in the run that follows an Open or a Save, the first task of
\* the year block with the session's token gets status Done, every other task
\* and field is as the profile that was opened or saved has it, and with no
\* task of that token the task list is unchanged
C27_TokenChangesOneStatus ==
    [][\A s \in DOMAIN sessions :
          /\ \A selected \in storage_list_profiles(storage) :
                Open(s, selected) =>
                    LET data == storage_read_profile(storage, selected)
                    IN  /\ TokenFrame(data.tasks, sessions'[s].tasks, sessions[s].complete_token)
                        /\ sessions'[s].business_name = data.business
                        /\ sessions'[s].complete_token = sessions[s].complete_token
                        /\ sessions'[s].uuids = sessions[s].uuids
          /\ Save(s, sessions[s].business_name) =>
                /\ TokenFrame(sessions[s].tasks, sessions'[s].tasks, sessions[s].complete_token)
                /\ sessions'[s].complete_token = sessions[s].complete_token
                /\ sessions'[s].uuids = sessions[s].uuids]_vars

\* A session opened from a completion link has loaded a profile of two tasks:
\* the first, whose token the link carries, is Done and the second is not
C27_Witness ==
    \E s \in DOMAIN sessions :
        LET session == sessions[s]
        IN  /\ session.complete_token # NoToken
            /\ Len(session.message) = 2
            /\ session.message[1] = "Loaded profile: "
            /\ Len(session.tasks) = 2
            /\ session.tasks[1].token = session.complete_token
            /\ session.tasks[1].status = "Done"
            /\ session.tasks[2].status = "Planned"

====
